---------------------------- MODULE Spec2Model ----------------------------
(***************************************************************************)
(* A model of the golrackpi session client (type AuthClient): the          *)
(* constructors and mutators, the three-step Login handshake, Logout and   *)
(* Me, together with the inverter as an arbitrary (possibly hostile or     *)
(* unreachable) HTTP peer.                                                 *)
(*                                                                         *)
(* Go strings and byte slices that travel in JSON or enter a digest are     *)
(* sequences of byte values (0..255); the scheme, the server name and the  *)
(* error messages are TLA+ strings.                                        *)
(***************************************************************************)
EXTENDS Integers, Sequences, FiniteSets, TLC

(***************************************************************************)
(* Byte strings                                                            *)
(***************************************************************************)

\* "user"
StrUser == <<117, 115, 101, 114>>
\* "n="
StrN == <<110, 61>>
\* ",r="
StrR == <<44, 114, 61>>
\* ",s="
StrS == <<44, 115, 61>>
\* ",i="
StrI == <<44, 105, 61>>
\* ",c=biws,r="
StrCR == <<44, 99, 61, 98, 105, 119, 115, 44, 114, 61>>
\* "Client Key"
StrClientKey == <<67, 108, 105, 101, 110, 116, 32, 75, 101, 121>>
\* "Server Key"
StrServerKey == <<83, 101, 114, 118, 101, 114, 32, 75, 101, 121>>
\* "changeme"
StrChangeme == <<99, 104, 97, 110, 103, 101, 109, 101>>
\* "SrvNonce-xyz"
StrSrvNonce == <<83, 114, 118, 78, 111, 110, 99, 101, 45, 120, 121, 122>>
\* "LbdaaizCLejX" and "QmRkYWFpekNM": two outcomes of helper.RandSeq(12)
StrRand1 == <<76, 98, 100, 97, 97, 105, 122, 67, 76, 101, 106, 88>>
StrRand2 == <<81, 109, 82, 107, 89, 87, 70, 112, 101, 107, 78, 77>>
\* base64("0123456789ABCDEF") = "MDEyMzQ1Njc4OUFCQ0RFRg=="
StrSaltB64 == <<77, 68, 69, 121, 77, 122, 81, 49, 78, 106, 99, 52, 79, 85, 70,
                67, 81, 48, 82, 70, 82, 103, 61, 61>>
\* "tok"
StrTok == <<116, 111, 107>>

\* the decimal digits of a natural number, most significant first
RECURSIVE NatDigits(_)
NatDigits(n) ==
    IF n < 10 THEN <<48 + n>> ELSE NatDigits(n \div 10) \o <<48 + (n % 10)>>

\* fmt's %d verb for an int64
FormatInt(n) == IF n < 0 THEN <<45>> \o NatDigits(0 - n) ELSE NatDigits(n)

(***************************************************************************)
(* encoding/base64, StdEncoding                                            *)
(***************************************************************************)

\* the alphabet character of a 6-bit value
EncodeChar(v) ==
    IF v < 26 THEN 65 + v
    ELSE IF v < 52 THEN 97 + (v - 26)
    ELSE IF v < 62 THEN 48 + (v - 52)
    ELSE IF v = 62 THEN 43 ELSE 47

\* decodeMap: the 6-bit value of an alphabet character, 255 for any other byte
DecodeMap(c) ==
    IF c >= 65 /\ c <= 90 THEN c - 65
    ELSE IF c >= 97 /\ c <= 122 THEN c - 97 + 26
    ELSE IF c >= 48 /\ c <= 57 THEN c - 48 + 52
    ELSE IF c = 43 THEN 62
    ELSE IF c = 47 THEN 63 ELSE 255

\* three bytes to four characters; the last group is padded with "=" (61)
RECURSIVE EncodeFrom(_, _)
EncodeFrom(src, i) ==
    LET rem == Len(src) - i + 1
        b0 == src[i]
        b1 == IF rem >= 2 THEN src[i + 1] ELSE 0
        b2 == IF rem >= 3 THEN src[i + 2] ELSE 0
        val == b0 * 65536 + b1 * 256 + b2
        c0 == EncodeChar(val \div 262144)
        c1 == EncodeChar((val \div 4096) % 64)
        c2 == EncodeChar((val \div 64) % 64)
        c3 == EncodeChar(val % 64)
    IN  IF rem <= 0 THEN <<>>
        ELSE IF rem = 1 THEN <<c0, c1, 61, 61>>
        ELSE IF rem = 2 THEN <<c0, c1, c2, 61>>
        ELSE <<c0, c1, c2, c3>> \o EncodeFrom(src, i + 3)

\* b64.StdEncoding.EncodeToString
EncodeToString(src) == EncodeFrom(src, 1)

RECURSIVE SkipNewlines(_, _)
SkipNewlines(src, si) ==
    IF si <= Len(src) /\ src[si] \in {10, 13}
    THEN SkipNewlines(src, si + 1) ELSE si

\* the bytes of a quantum of dlen 6-bit values (dlen - 1 bytes; none for dlen < 2)
QuantumBytes(dbuf, dlen) ==
    LET d(k) == IF k <= Len(dbuf) THEN dbuf[k] ELSE 0
        val == d(1) * 262144 + d(2) * 4096 + d(3) * 64 + d(4)
        all == <<val \div 65536, (val \div 256) % 256, val % 256>>
    IN  IF dlen < 2 THEN <<>> ELSE SubSeq(all, 1, dlen - 1)

\* the padded end of the input: what follows the padding but newlines is
\* trailing garbage, reported after the quantum's bytes are written
PaddedEnd(src, si, dbuf, j) ==
    LET s == SkipNewlines(src, si)
    IN  [si |-> s, bytes |-> QuantumBytes(dbuf, j), err |-> s <= Len(src)]

\* decodeQuantum: reads up to four alphabet characters from src[si..],
\* skipping "\n" (10) and "\r" (13); j characters are already in dbuf; "="
\* (61) pads the last quantum
RECURSIVE DecodeQuantum(_, _, _, _)
DecodeQuantum(src, si, j, dbuf) ==
    LET corrupt == [si |-> si, bytes |-> <<>>, err |-> TRUE]
    IN  IF j = 4 THEN [si |-> si, bytes |-> QuantumBytes(dbuf, 4), err |-> FALSE]
        ELSE IF si > Len(src)
        THEN IF j = 0 THEN [si |-> si, bytes |-> <<>>, err |-> FALSE] ELSE corrupt
        ELSE IF DecodeMap(src[si]) # 255
        THEN DecodeQuantum(src, si + 1, j + 1, Append(dbuf, DecodeMap(src[si])))
        ELSE IF src[si] \in {10, 13}
        THEN DecodeQuantum(src, si + 1, j, dbuf)
        ELSE IF src[si] # 61 THEN corrupt
        ELSE IF j < 2 THEN corrupt
        ELSE IF j = 2
        THEN LET s == SkipNewlines(src, si + 1)
             IN  IF s > Len(src) \/ src[s] # 61 THEN corrupt
                 ELSE PaddedEnd(src, s + 1, dbuf, 2)
        ELSE PaddedEnd(src, si + 1, dbuf, 3)

RECURSIVE DecodeFrom(_, _, _)
DecodeFrom(src, si, out) ==
    IF si > Len(src) THEN [bytes |-> out, err |-> FALSE]
    ELSE LET q == DecodeQuantum(src, si, 0, <<>>)
         IN  IF q.err THEN [bytes |-> out \o q.bytes, err |-> TRUE]
             ELSE DecodeFrom(src, q.si, out \o q.bytes)

\* b64.StdEncoding.DecodeString: the bytes decoded before the first error, and
\* whether there was one
DecodeString(s) == DecodeFrom(s, 1, <<>>)

(***************************************************************************)
(* internal/helper: the digests and the key derivation.  The 32-byte       *)
(* outputs are those of a small deterministic digest standing in for       *)
(* SHA-256: equal inputs give equal outputs, and the inputs used here give *)
(* pairwise different ones.                                                *)
(***************************************************************************)

HashLen == 32

\* the polynomial sum of (s[i] + 1) * 31^(hi - i) over lo..hi modulo 32749, and
\* 31^(hi - lo + 1), by halves
RECURSIVE Absorb(_, _, _)
Absorb(s, lo, hi) ==
    IF lo > hi THEN [v |-> 0, p |-> 1]
    ELSE IF lo = hi THEN [v |-> s[lo] + 1, p |-> 31]
    ELSE LET mid == (lo + hi) \div 2
             l == Absorb(s, lo, mid)
             r == Absorb(s, mid + 1, hi)
         IN  [v |-> (l.v * r.p + r.v) % 32749, p |-> (l.p * r.p) % 32749]

Digest(s) ==
    LET h == Absorb(s, 1, Len(s)).v
    IN  [k \in 1..HashLen |-> (h * (2 * k + 1) + 13 * k) % 256]

\* helper.GetSHA256Hash
GetSHA256Hash(data) == Digest(<<1>> \o data)

\* helper.GetHMACSHA256
GetHMACSHA256(key, msg) == Digest(<<2>> \o key \o <<0>> \o msg)

\* helper.GetPBKDF2Hash
GetPBKDF2Hash(password, salt, rounds) ==
    Digest(<<3>> \o password \o <<0>> \o salt \o <<0>> \o FormatInt(rounds))

\* a^b on bytes, bit by bit
RECURSIVE XorByte(_, _, _)
XorByte(a, b, n) ==
    IF n = 0 THEN 0
    ELSE ((a + b) % 2) + 2 * XorByte(a \div 2, b \div 2, n - 1)

\* helper.CreateClientProof: base64 of clientKey XOR clientSignature
CreateClientProof(clientSignature, clientKey) ==
    EncodeToString([k \in 1..Len(clientKey) |->
                        XorByte(clientKey[k], clientSignature[k], 8)])

(***************************************************************************)
(* JSON values, and what the inverter may answer                           *)
(***************************************************************************)

JAbsent == [kind |-> "absent", str |-> <<>>, num |-> 0, frac |-> FALSE]
\* null, a boolean, an array or an object
JOther == [kind |-> "other", str |-> <<>>, num |-> 0, frac |-> FALSE]
JStr(s) == [kind |-> "string", str |-> s, num |-> 0, frac |-> FALSE]
\* a number with integral part n; frac: its fractional part is not zero
JNum(n, frac) == [kind |-> "number", str |-> <<>>, num |-> n, frac |-> frac]

\* "tx-1", "tx-2"
Tx1 == <<116, 120, 45, 49>>
Tx2 == <<116, 120, 45, 50>>
\* the session ids the inverter hands out: "s1", "s2", ...
MaxSessionIds == 2
Sid(k) == <<115, 48 + k>>
SessionIds == {Sid(k) : k \in 1..MaxSessionIds}
\* "many"
StrMany == <<109, 97, 110, 121>>
\* "MDEy!zQ1": base64 with a byte outside the alphabet in its second quantum
StrSaltBad == <<77, 68, 69, 121, 33, 122, 81, 49>>
\* "r=s=i=c=biws": a server nonce made of the field marks of the auth message
StrNonceMarks == <<114, 61, 115, 61, 105, 61, 99, 61, 98, 105, 119, 115>>
\* "Session "
StrSession == <<83, 101, 115, 115, 105, 111, 110, 32>>

NoFields ==
    [nonce |-> JAbsent, rounds |-> JAbsent, salt |-> JAbsent,
     transactionId |-> JAbsent, signature |-> JAbsent, token |-> JAbsent,
     sessionId |-> JAbsent]

\* a response body: an object with these members, a JSON value that is no
\* object, or no JSON at all
ObjectBody(fields) == [shape |-> "object", fields |-> fields]
NonObjectBody == [shape |-> "nonobject", fields |-> NoFields]
MalformedBody == [shape |-> "malformed", fields |-> NoFields]

\* json.NewDecoder(r).Decode(&result) into a nil map, the error dropped: the
\* map stays nil unless the body is an object; a nil map has no members
DecodeMapBody(body, key) ==
    IF body.shape = "object" THEN body.fields[key] ELSE JAbsent

StatusCodes == {200, 401}

\* what comes back for a request: the request failed (err # nil), the body
\* could not be read, or a status with a body
Responses(bodies) ==
    {[transport |-> "neterr", status |-> 0, body |-> MalformedBody],
     [transport |-> "readerr", status |-> 200, body |-> MalformedBody]}
    \cup {[transport |-> "ok", status |-> st, body |-> b] :
              st \in StatusCodes, b \in bodies}

\* net/http refuses a URL without a host ("http: no Host in request URL")
Reachable(server, resp) == server # "" \/ resp.transport = "neterr"

(***************************************************************************)
(* The client and its calls                                                *)
(***************************************************************************)

VARIABLES
    client,           \* the AuthClient: Scheme, Server, Password, SessionId
    pc,               \* "idle", the request Login waits on, or "panic"
    transient,        \* what the last call saw and computed
    wire,             \* the requests sent by the call in progress or last made
    ret,              \* the last call made and what it returned
    lastTransport,    \* how the last request sent fared: "ok", "neterr", "readerr"
    lastSchemeInput,  \* the scheme last given to a constructor or to SetScheme
    loggedIn,         \* a Login succeeded and no Logout was called since
    stdout,           \* the lines the library call in progress or last made printed
    cli,              \* the command-line subcommand run by the process, if any
    conc              \* two callers that use the client at the same time

vars == <<client, pc, transient, wire, ret, lastTransport, lastSchemeInput,
          loggedIn, stdout, cli, conc>>

endpointAuthStart == "/api/v1/auth/start"
endpointAuthFinish == "/api/v1/auth/finish"
endpointAuthCreateSession == "/api/v1/auth/create_session"
endpointLogout == "/api/v1/auth/logout"
endpointMe == "/api/v1/auth/me"

SchemeInputs == {"https", "HTTPS", "HtTpS", "http"}
ServerInputs == {"192.168.10.250"}
PasswordInputs == {StrChangeme}
RandSeqs == {StrRand1, StrRand2}

NoErr == ""
NoRet == [op |-> "none", sid |-> <<>>, ok |-> FALSE, err |-> NoErr]
\* a call that returns nothing
Called(op) == [op |-> op, sid |-> <<>>, ok |-> FALSE, err |-> NoErr]

NoBody == [nonce |-> <<>>, username |-> <<>>, transactionId |-> <<>>,
           proof |-> <<>>, iv |-> <<>>, tag |-> <<>>, payload |-> <<>>]

\* the derived keys of a Login, before any is computed
NoKeys ==
    [saltedPassword |-> <<>>, clientKey |-> <<>>, serverKey |-> <<>>,
     storedKey |-> <<>>, authMessage |-> <<>>, clientSignature |-> <<>>,
     serverSignature |-> <<>>, clientProof |-> <<>>]

NoTransient ==
    [entrySessionId |-> <<>>, base64String |-> <<>>, startSeen |-> FALSE,
     rounds |-> 0, transactionId |-> <<>>, serverSignature |-> <<>>,
     finishSeen |-> FALSE, finishStatus |-> 0,
     resultFinish |-> [signature |-> JAbsent, token |-> JAbsent],
     keys |-> NoKeys, protocolKey |-> <<>>, userPassword |-> <<>>, status |-> 0,
     compareSteps |-> -1, ivNonce |-> <<>>,
     startShape |-> "none", sessionSeen |-> FALSE, sessionId |-> JAbsent,
     result |-> [nonce |-> JAbsent, rounds |-> JAbsent, salt |-> JAbsent,
                 transactionId |-> JAbsent]]

\* getUrl
getUrl(c, request) == [scheme |-> c.Scheme, server |-> c.Server, path |-> request]

\* http.Post(url, "application/json", body): no authorization header
PostJSON(c, endpoint, body) ==
    [method |-> "POST", url |-> getUrl(c, endpoint), authorization |-> <<>>,
     contentType |-> "application/json", body |-> body]

\* the request without the session id in its header
SessionRequestNoId(c, method, endpoint) ==
    [method |-> method, url |-> getUrl(c, endpoint),
     authorization |-> StrSession, contentType |-> "", body |-> NoBody]

\* http.NewRequest(method, url, nil) with the session header added
SessionRequest(c, method, endpoint) ==
    [method |-> method, url |-> getUrl(c, endpoint),
     authorization |-> StrSession \o c.SessionId,
     contentType |-> "", body |-> NoBody]

\* New
NewClient ==
    [Scheme |-> "http", Server |-> "", Password |-> <<>>, SessionId |-> <<>>]

\* no subcommand was started
NoCli ==
    [cmd |-> "none", pc |-> "none", deferred |-> FALSE, calls |-> <<>>,
     loginOk |-> FALSE, loginErr |-> FALSE, requestErr |-> FALSE,
     output |-> <<>>, exitCode |-> -1]

\* no caller is inside Me or Logout on another goroutine
NoConc ==
    [me |-> "idle", logout |-> "idle", meAuthorization |-> <<>>,
     logoutFailed |-> FALSE, invalidated |-> <<>>, meRet |-> NoErr,
     logoutRet |-> NoErr, raced |-> FALSE, staleSent |-> FALSE]

Init ==
    /\ client = NewClient
    /\ pc = "idle"
    /\ transient = NoTransient
    /\ wire = <<>>
    /\ ret = NoRet
    /\ lastTransport = "none"
    /\ lastSchemeInput = "none"
    /\ loggedIn = FALSE
    /\ stdout = <<>>
    /\ cli = NoCli
    /\ conc = NoConc

New ==
    /\ pc = "idle"
    /\ client' = NewClient
    /\ transient' = NoTransient
    /\ wire' = <<>>
    /\ ret' = Called("New")
    /\ lastTransport' = "none"
    /\ lastSchemeInput' = "none"
    /\ loggedIn' = FALSE
    /\ UNCHANGED <<pc, stdout>>

\* the scheme NewWithParameter keeps of param.Scheme
ParamScheme(scheme) == IF scheme = "https" THEN "https" ELSE "http"

\* NewWithParameter: param.SessionId is not copied
NewWithParameter ==
    /\ pc = "idle"
    /\ \E scheme \in SchemeInputs, server \in ServerInputs \cup {""},
          password \in PasswordInputs \cup {<<>>}, sid \in {<<>>, Sid(1)} :
          LET param == [Scheme |-> scheme, Server |-> server,
                        Password |-> password, SessionId |-> sid]
          IN  /\ client' = [Scheme |-> ParamScheme(param.Scheme),
                            Server |-> param.Server,
                            Password |-> param.Password, SessionId |-> <<>>]
              /\ lastSchemeInput' = scheme
    /\ transient' = NoTransient
    /\ wire' = <<>>
    /\ ret' = Called("NewWithParameter")
    /\ lastTransport' = "none"
    /\ loggedIn' = FALSE
    /\ UNCHANGED <<pc, stdout>>

SetServer ==
    /\ pc = "idle"
    /\ \E server \in ServerInputs : client' = [client EXCEPT !.Server = server]
    /\ transient' = NoTransient
    /\ wire' = <<>>
    /\ ret' = Called("SetServer")
    /\ lastTransport' = "none"
    /\ UNCHANGED <<pc, lastSchemeInput, loggedIn, stdout>>

SetPassword ==
    /\ pc = "idle"
    /\ \E password \in PasswordInputs :
          client' = [client EXCEPT !.Password = password]
    /\ transient' = NoTransient
    /\ wire' = <<>>
    /\ ret' = Called("SetPassword")
    /\ lastTransport' = "none"
    /\ UNCHANGED <<pc, lastSchemeInput, loggedIn, stdout>>

\* the coercion, had it compared without regard to case
CoerceSchemeAnyCase(scheme) ==
    IF scheme \in {"https", "HTTPS", "HtTpS"} THEN "https" ELSE "http"

\* the scheme SetScheme stores
CoerceScheme(scheme) == IF scheme = "https" THEN "https" ELSE "http"

SetScheme ==
    /\ pc = "idle"
    /\ \E scheme \in SchemeInputs :
          /\ client' = [client EXCEPT !.Scheme = CoerceScheme(scheme)]
          /\ lastSchemeInput' = scheme
    /\ transient' = NoTransient
    /\ wire' = <<>>
    /\ ret' = Called("SetScheme")
    /\ lastTransport' = "none"
    /\ UNCHANGED <<pc, loggedIn, stdout>>

(***************************************************************************)
(* Login                                                                   *)
(***************************************************************************)

\* err != nil after http.Post
PostFailed(resp) == resp.transport = "neterr"

\* err != nil after ioutil.ReadAll
ReadFailed(resp) == resp.transport = "readerr"

\* a return that hands back no session id
ReturnNoSid(op, sid, ok, err) ==
    /\ ret' = [op |-> op, sid |-> <<>>, ok |-> ok, err |-> err]
    /\ pc' = "idle"

Return(op, sid, ok, err) ==
    /\ ret' = [op |-> op, sid |-> sid, ok |-> ok, err |-> err]
    /\ pc' = "idle"

\* a failed type assertion x.(T): the goroutine panics and the call never returns
Panic ==
    /\ pc' = "panic"
    /\ UNCHANGED <<client, wire, ret, lastSchemeInput, loggedIn>>

\* Login, up to the first POST
LoginCall ==
    /\ pc = "idle"
    /\ \E randomString \in RandSeqs :
          LET base64String == EncodeToString(randomString)
              startRequest == [NoBody EXCEPT !.nonce = base64String,
                                             !.username = StrUser]
          IN  /\ transient' = [NoTransient EXCEPT
                                   !.entrySessionId = client.SessionId,
                                   !.base64String = base64String]
              /\ wire' = <<PostJSON(client, endpointAuthStart, startRequest)>>
    /\ pc' = "start_sent"
    /\ ret' = Called("Login")
    /\ lastTransport' = "none"
    /\ UNCHANGED <<client, lastSchemeInput, loggedIn, stdout>>

\* the members of a well-formed start response
StartFields(t) ==
    [NoFields EXCEPT !.nonce = JStr(StrSrvNonce), !.rounds = JNum(29000, FALSE),
                     !.salt = JStr(StrSaltB64), !.transactionId = JStr(t)]

\* what the inverter may answer to start: no JSON, no object, a well-formed
\* object (for "tx-1", or for "tx-2" with a nonce made of field marks), or one
\* that departs from the first in one member
StartBodies ==
    {MalformedBody, NonObjectBody} \cup
    {ObjectBody(StartFields(Tx1)),
     ObjectBody([StartFields(Tx2) EXCEPT !.nonce = JStr(StrNonceMarks)])} \cup
    {ObjectBody([StartFields(Tx1) EXCEPT !.nonce = JAbsent])} \cup
    {ObjectBody([StartFields(Tx1) EXCEPT !.rounds = r]) :
        r \in {JNum(29000, TRUE), JStr(StrMany), JAbsent}} \cup
    {ObjectBody([StartFields(Tx1) EXCEPT !.salt = x]) :
        x \in {JStr(StrSaltBad), JAbsent}} \cup
    {ObjectBody([StartFields(Tx1) EXCEPT !.transactionId = x]) :
        x \in {JOther, JAbsent}}

\* result["nonce"].(string), result["rounds"].(float64), result["salt"].(string)
\* and result["transactionId"].(string) all succeed
StartFieldsOk(body) ==
    /\ DecodeMapBody(body, "nonce").kind = "string"
    /\ DecodeMapBody(body, "rounds").kind = "number"
    /\ DecodeMapBody(body, "salt").kind = "string"
    /\ DecodeMapBody(body, "transactionId").kind = "string"

\* the members of the start response Login reads from the decoded map
StartResult(body) ==
    [nonce |-> DecodeMapBody(body, "nonce"),
     rounds |-> DecodeMapBody(body, "rounds"),
     salt |-> DecodeMapBody(body, "salt"),
     transactionId |-> DecodeMapBody(body, "transactionId")]

\* the message without the server nonce repeated at its end
AuthMessageOpenEnd(userName, nonce, serverNonce, serverSalt, rounds) ==
    StrN \o userName \o StrR \o nonce \o StrR \o serverNonce \o StrS \o
    serverSalt \o StrI \o FormatInt(rounds) \o StrCR

\* fmt.Sprintf("n=%s,r=%s,r=%s,s=%s,i=%d,c=biws,r=%s", ...)
AuthMessage(userName, nonce, serverNonce, serverSalt, rounds) ==
    StrN \o userName \o StrR \o nonce \o StrR \o serverNonce \o StrS \o
    serverSalt \o StrI \o FormatInt(rounds) \o StrCR \o serverNonce

\* the "magic crypto stuff" of Login: what it derives from the password, the
\* nonce it sent and the members of the start response
LoginKeys(password, base64String, result) ==
    LET serverNonce == result.nonce.str
        rounds == result.rounds.num
        serverSalt == result.salt.str
        serverSaltDecoded == DecodeString(serverSalt).bytes
        saltedPassword == GetPBKDF2Hash(password, serverSaltDecoded, rounds)
        clientKey == GetHMACSHA256(saltedPassword, StrClientKey)
        serverKey == GetHMACSHA256(saltedPassword, StrServerKey)
        storedKey == GetSHA256Hash(clientKey)
        authMessage ==
            AuthMessage(StrUser, base64String, serverNonce, serverSalt, rounds)
        clientSignature == GetHMACSHA256(storedKey, authMessage)
        serverSignature == GetHMACSHA256(serverKey, authMessage)
    IN  [saltedPassword |-> saltedPassword, clientKey |-> clientKey,
         serverKey |-> serverKey, storedKey |-> storedKey,
         authMessage |-> authMessage, clientSignature |-> clientSignature,
         serverSignature |-> serverSignature,
         clientProof |-> CreateClientProof(clientSignature, clientKey)]

\* Login, from the answer to start to the second POST
LoginStartReply ==
    /\ pc = "start_sent"
    /\ UNCHANGED stdout
    /\ \E resp \in Responses(StartBodies) :
          /\ Reachable(client.Server, resp)
          /\ lastTransport' = resp.transport
          /\ IF PostFailed(resp)
             THEN /\ Return("Login", <<>>, FALSE, "could not initiate authentication")
                  /\ UNCHANGED <<client, transient, wire, lastSchemeInput, loggedIn>>
             ELSE IF ReadFailed(resp)
             THEN /\ Return("Login", <<>>, FALSE, "could not read authentication response")
                  /\ UNCHANGED <<client, transient, wire, lastSchemeInput, loggedIn>>
             ELSE IF ~StartFieldsOk(resp.body)
             THEN /\ Panic
                  /\ transient' = [transient EXCEPT
                                       !.startSeen = TRUE,
                                       !.startShape = resp.body.shape,
                                       !.result = StartResult(resp.body)]
             ELSE \E keys \in {LoginKeys(client.Password, transient.base64String,
                                         StartResult(resp.body))} :
                  LET \* int64(float64): the fraction is cut off
                      rounds == DecodeMapBody(resp.body, "rounds").num
                      transactionId == DecodeMapBody(resp.body, "transactionId").str
                      serverSignature == keys.serverSignature
                      clientProof == keys.clientProof
                      finishRequest == [NoBody EXCEPT
                                            !.transactionId = transactionId,
                                            !.proof = clientProof]
                  IN  /\ transient' = [transient EXCEPT
                                           !.startSeen = TRUE,
                                           !.startShape = resp.body.shape,
                                           !.result = StartResult(resp.body),
                                           !.keys = keys,
                                           !.rounds = rounds,
                                           !.transactionId = transactionId,
                                           !.serverSignature = serverSignature]
                      /\ wire' = Append(wire, PostJSON(client, endpointAuthFinish,
                                                       finishRequest))
                      /\ pc' = "finish_sent"
                      /\ UNCHANGED <<client, ret, lastSchemeInput, loggedIn>>

\* a signature with the lowest bit of its last byte flipped
FlipLastBit(sig) ==
    [sig EXCEPT ![Len(sig)] = IF sig[Len(sig)] % 2 = 0 THEN @ + 1 ELSE @ - 1]

\* a signature with the highest bit of its first byte flipped
FlipFirstBit(sig) == [sig EXCEPT ![1] = (@ + 128) % 256]

\* the signature strings a peer may send when the client expects sig
SignatureStrings(sig) ==
    {EncodeToString(sig),
     EncodeToString(FlipLastBit(sig)),
     EncodeToString(FlipFirstBit(sig)),
     EncodeToString(SubSeq(sig, 1, Len(sig) - 1)),
     EncodeToString(sig \o <<0>>),
     \* the right signature followed by "!"
     EncodeToString(sig) \o <<33>>,
     <<>>}

FinishBodies(sig) ==
    {MalformedBody, NonObjectBody} \cup
    {ObjectBody([NoFields EXCEPT !.signature = s, !.token = k]) :
        s \in {JStr(x) : x \in SignatureStrings(sig)} \cup {JOther, JAbsent},
        k \in {JStr(StrTok), JStr(<<>>), JOther, JAbsent}}

\* authOkSignature || authOkToken
AuthOkEither(body) ==
    \/ DecodeMapBody(body, "signature").kind # "absent"
    \/ DecodeMapBody(body, "token").kind # "absent"

\* both members are present: _, authOkSignature := resultFinish["signature"]
\* and _, authOkToken := resultFinish["token"] give true
AuthOk(body) ==
    /\ DecodeMapBody(body, "signature").kind # "absent"
    /\ DecodeMapBody(body, "token").kind # "absent"

\* resultFinish["signature"].(string) and resultFinish["token"].(string) succeed
FinishFieldsOk(body) ==
    /\ DecodeMapBody(body, "signature").kind = "string"
    /\ DecodeMapBody(body, "token").kind = "string"

\* bytes.Compare: -1, 0 or 1, lexicographically
BytesCompare(a, b) ==
    LET n == IF Len(a) < Len(b) THEN Len(a) ELSE Len(b)
        differ == {i \in 1..n : a[i] # b[i]}
        first == CHOOSE i \in differ : \A j \in differ : i <= j
    IN  IF differ # {} THEN (IF a[first] < b[first] THEN -1 ELSE 1)
        ELSE IF Len(a) < Len(b) THEN -1
        ELSE IF Len(a) > Len(b) THEN 1 ELSE 0

\* the byte pairs bytes.Compare looks at: it walks the common length and
\* stops at the first pair that differs
CompareSteps(a, b) ==
    LET n == IF Len(a) < Len(b) THEN Len(a) ELSE Len(b)
        differ == {i \in 1..n : a[i] # b[i]}
    IN  IF differ = {} THEN n ELSE CHOOSE i \in differ : \A j \in differ : i <= j

\* cmpBytes != 0, had the comparison stopped at the end of the shorter slice
SignatureMismatchPrefix(signature, serverSignature) ==
    LET n == IF Len(signature) < Len(serverSignature)
             THEN Len(signature) ELSE Len(serverSignature)
    IN  BytesCompare(SubSeq(signature, 1, n), SubSeq(serverSignature, 1, n)) # 0

\* the comparison's result dropped
SignatureMismatchIgnored(signature, serverSignature) == FALSE

\* cmpBytes != 0
SignatureMismatch(signature, serverSignature) ==
    BytesCompare(signature, serverSignature) # 0

\* "Session Key"
StrSessionKey == <<83, 101, 115, 115, 105, 111, 110, 32, 75, 101, 121>>

\* hmac.New(sha256.New, storedKey) fed "Session Key", authMessage, clientKey
ProtocolKey(storedKey, authMessage, clientKey) ==
    GetHMACSHA256(storedKey, StrSessionKey \o authMessage \o clientKey)

\* an outcome of helper.GenerateRandomBytes(16)
Iv1 == [k \in 1..16 |-> (37 * k + 11) % 256]
\* the buffer of a generator that failed before it wrote a byte
IvZeros == [k \in 1..16 |-> 0]
\* what ivNonce can be, the error value dropped: sixteen random bytes; when
\* the generator reports an error, nil or the buffer it did not fill
RandomBytes == {Iv1, <<>>, IvZeros}

\* cipher.NewGCMWithNonceSize(block, 16): Seal panics on a nonce of another
\* length ("incorrect nonce length given to GCM")
NonceSizeOk(nonce) == Len(nonce) = 16

\* the GCM tag: 16 bytes
GcmTag(key, nonce, ciphertext) ==
    SubSeq(Digest(<<5>> \o key \o <<0>> \o nonce \o <<0>> \o ciphertext), 1, 16)

\* a "cipher" that hands out its key as the ciphertext
SealLeaksKey(key, nonce, plaintext) == key \o GcmTag(key, nonce, key)

\* aesgcm.Seal(nil, nonce, plaintext, nil): the ciphertext, as long as the
\* plaintext, followed by the tag
Seal(key, nonce, plaintext) ==
    LET keystream == Digest(<<4>> \o key \o <<0>> \o nonce)
        ciphertext == [k \in 1..Len(plaintext) |->
                          XorByte(plaintext[k], keystream[((k - 1) % HashLen) + 1], 8)]
    IN  ciphertext \o GcmTag(key, nonce, ciphertext)

\* the split, had it taken the last 12 bytes for the tag
SplitTagTwelve(sealed) ==
    LET n == Len(sealed)
    IN  [ciphertext |-> SubSeq(sealed, 1, n - 12), tag |-> SubSeq(sealed, n - 11, n)]

\* ciphertext[:len(ciphertext)-16] and ciphertext[len(ciphertext)-16:]
SplitTag(sealed) ==
    LET n == Len(sealed)
    IN  [ciphertext |-> SubSeq(sealed, 1, n - 16), tag |-> SubSeq(sealed, n - 15, n)]

\* the request, had it named the transaction "tx-1" whatever start answered
CreateSessionRequestFixedTx(transactionId, ivNonce, tag, ciphertext) ==
    [NoBody EXCEPT !.transactionId = Tx1,
                   !.iv = EncodeToString(ivNonce),
                   !.tag = EncodeToString(tag),
                   !.payload = EncodeToString(ciphertext)]

\* the AuthCreateSessionType sent
CreateSessionRequest(transactionId, ivNonce, tag, ciphertext) ==
    [NoBody EXCEPT !.transactionId = transactionId,
                   !.iv = EncodeToString(ivNonce),
                   !.tag = EncodeToString(tag),
                   !.payload = EncodeToString(ciphertext)]

\* Login, from the answer to finish to the third POST
LoginFinishReply ==
    /\ pc = "finish_sent"
    /\ UNCHANGED stdout
    /\ \E resp \in Responses(FinishBodies(transient.serverSignature)) :
          /\ Reachable(client.Server, resp)
          /\ lastTransport' = resp.transport
          /\ IF PostFailed(resp)
             THEN /\ Return("Login", <<>>, FALSE,
                            "could not initiate authentication finish request")
                  /\ UNCHANGED <<client, transient, wire, lastSchemeInput, loggedIn>>
             ELSE IF ReadFailed(resp)
             THEN /\ Return("Login", <<>>, FALSE,
                            "could not read from authentication finish request")
                  /\ UNCHANGED <<client, transient, wire, lastSchemeInput, loggedIn>>
             ELSE LET token == DecodeMapBody(resp.body, "token").str
                      seen == [transient EXCEPT
                                   !.finishSeen = TRUE,
                                   !.finishStatus = resp.status,
                                   !.resultFinish =
                                       [signature |-> DecodeMapBody(resp.body, "signature"),
                                        token |-> DecodeMapBody(resp.body, "token")]]
                      signatureStr == DecodeMapBody(resp.body, "signature").str
                  IN  IF ~AuthOk(resp.body)
                      THEN /\ Return("Login", <<>>, FALSE, "authentication failed")
                           /\ transient' = seen
                           /\ UNCHANGED <<client, wire, lastSchemeInput, loggedIn>>
                      ELSE IF ~FinishFieldsOk(resp.body)
                      THEN /\ Panic
                           /\ transient' = seen
                      ELSE \E signature \in {DecodeString(signatureStr).bytes} :
                           \E compared \in
                                  {[seen EXCEPT !.compareSteps =
                                       CompareSteps(signature,
                                                    transient.serverSignature)]} :
                           IF SignatureMismatch(signature, transient.serverSignature)
                           THEN /\ Return("Login", <<>>, FALSE, "signature check error")
                                /\ transient' = compared
                                /\ UNCHANGED <<client, wire, lastSchemeInput,
                                               loggedIn>>
                           ELSE \E protocolKey \in
                                      {ProtocolKey(transient.keys.storedKey,
                                                   transient.keys.authMessage,
                                                   transient.keys.clientKey)},
                                   ivNonce \in RandomBytes :
                                /\ transient' =
                                       [compared EXCEPT
                                           !.ivNonce = ivNonce,
                                           !.protocolKey = protocolKey]
                                /\ IF ~NonceSizeOk(ivNonce)
                                   THEN Panic
                                   ELSE \E split \in {SplitTag(Seal(protocolKey,
                                                           ivNonce, token))} :
                                        /\ wire' = Append(wire,
                                               PostJSON(client,
                                                   endpointAuthCreateSession,
                                                   CreateSessionRequest(
                                                       transient.transactionId,
                                                       ivNonce, split.tag,
                                                       split.ciphertext)))
                                        /\ pc' = "session_sent"
                                        /\ UNCHANGED <<client, ret,
                                                       lastSchemeInput, loggedIn>>

SessionBodies ==
    {MalformedBody, NonObjectBody} \cup
    {ObjectBody([NoFields EXCEPT !.sessionId = s]) :
        s \in {JStr(x) : x \in SessionIds} \cup {JStr(<<>>), JOther, JAbsent}}

\* Login, from the answer to create_session to its return
LoginSessionReply ==
    /\ pc = "session_sent"
    /\ \E resp \in Responses(SessionBodies) :
          /\ Reachable(client.Server, resp)
          /\ lastTransport' = resp.transport
          /\ LET sessionId == DecodeMapBody(resp.body, "sessionId")
             IN  IF PostFailed(resp)
                 THEN /\ Return("Login", <<>>, FALSE, "could not create session")
                      /\ UNCHANGED <<client, loggedIn>>
                 ELSE IF ReadFailed(resp)
                 THEN /\ Return("Login", <<>>, FALSE,
                                "could not read from create session request")
                      /\ UNCHANGED <<client, loggedIn>>
                 ELSE IF sessionId.kind = "absent"
                 THEN /\ Return("Login", <<>>, FALSE, "session id not available")
                      /\ UNCHANGED <<client, loggedIn>>
                 ELSE IF sessionId.kind # "string"
                 THEN /\ pc' = "panic"
                      /\ UNCHANGED <<client, ret, loggedIn>>
                 ELSE /\ client' = [client EXCEPT !.SessionId = sessionId.str]
                      /\ Return("Login", sessionId.str, TRUE, NoErr)
                      /\ loggedIn' = TRUE
          /\ transient' = IF PostFailed(resp) \/ ReadFailed(resp) THEN transient
                          ELSE [transient EXCEPT
                                    !.sessionSeen = TRUE,
                                    !.sessionId =
                                        DecodeMapBody(resp.body, "sessionId")]
    /\ UNCHANGED <<wire, lastSchemeInput, stdout>>

(***************************************************************************)
(* Logout and Me                                                           *)
(***************************************************************************)

\* errReq != nil || response.StatusCode != 200
LogoutFailed(resp) == resp.transport = "neterr" \/ resp.status # 200

Logout ==
    /\ pc = "idle"
    /\ wire' = <<SessionRequest(client, "POST", endpointLogout)>>
    /\ \E resp \in Responses({MalformedBody}) :
          /\ Reachable(client.Server, resp)
          /\ lastTransport' = resp.transport
          /\ IF LogoutFailed(resp)
             THEN /\ Return("Logout", <<>>, FALSE, "logout error")
                  /\ UNCHANGED client
             ELSE /\ client' = [client EXCEPT !.SessionId = <<>>]
                  /\ Return("Logout", <<>>, TRUE, NoErr)
          /\ transient' = [NoTransient EXCEPT !.status = resp.status]
    /\ loggedIn' = FALSE
    /\ UNCHANGED <<lastSchemeInput, stdout>>

MeBodies == {MalformedBody, NonObjectBody, ObjectBody(NoFields)}

Me ==
    /\ pc = "idle"
    /\ wire' = <<SessionRequest(client, "GET", endpointMe)>>
    /\ \E resp \in Responses(MeBodies) :
          /\ Reachable(client.Server, resp)
          /\ lastTransport' = resp.transport
          /\ IF PostFailed(resp)
             THEN Return("Me", <<>>, FALSE, "request error")
             ELSE IF ReadFailed(resp)
             THEN Return("Me", <<>>, FALSE, "read error")
             ELSE IF resp.body.shape = "malformed"
             THEN Return("Me", <<>>, FALSE, "json error")
             ELSE IF resp.body.shape # "object"
             THEN Return("Me", <<>>, FALSE, "could not read response")
             ELSE Return("Me", <<>>, TRUE, NoErr)
          /\ transient' = [NoTransient EXCEPT !.status = resp.status]
    /\ UNCHANGED <<client, lastSchemeInput, loggedIn, stdout>>

(***************************************************************************)
(* The function Login(userPassword) of the package: the same handshake     *)
(* against the fixed address 192.168.10.250, with its trace on standard   *)
(* output.  A printed line is its leading text and the rest as fmt writes *)
(* it; of a JSON text or a decoded map the line keeps the member values,   *)
(* separated by commas.                                                    *)
(***************************************************************************)

Line(label, text) == [label |-> label, text |-> text]

HexDigit(v) == IF v < 10 THEN 48 + v ELSE 87 + v

\* fmt's %x verb for a byte slice
Hex(b) ==
    [k \in 1..(2 * Len(b)) |->
        HexDigit(IF k % 2 = 1 THEN b[(k + 1) \div 2] \div 16 ELSE b[k \div 2] % 16)]

RECURSIVE DecimalsFrom(_, _)
DecimalsFrom(b, i) ==
    IF i > Len(b) THEN <<>>
    ELSE IF i = Len(b) THEN NatDigits(b[i])
    ELSE NatDigits(b[i]) \o <<32>> \o DecimalsFrom(b, i + 1)

\* fmt.Println of a byte slice: "[1 2 3]"
FormatBytes(b) == <<91>> \o DecimalsFrom(b, 1) \o <<93>>

\* the member values of a request body
RequestText(b) ==
    b.nonce \o <<44>> \o b.username \o <<44>> \o b.transactionId \o <<44>> \o
    b.proof \o <<44>> \o b.iv \o <<44>> \o b.tag \o <<44>> \o b.payload

\* the value of a member as it stands in the JSON text
MemberText(j) ==
    IF j.kind = "string" THEN j.str
    ELSE IF j.kind = "number" THEN FormatInt(j.num) ELSE <<>>

\* the member values of a response body
ResponseText(body) ==
    MemberText(DecodeMapBody(body, "nonce")) \o <<44>> \o
    MemberText(DecodeMapBody(body, "rounds")) \o <<44>> \o
    MemberText(DecodeMapBody(body, "salt")) \o <<44>> \o
    MemberText(DecodeMapBody(body, "transactionId")) \o <<44>> \o
    MemberText(DecodeMapBody(body, "signature")) \o <<44>> \o
    MemberText(DecodeMapBody(body, "token")) \o <<44>> \o
    MemberText(DecodeMapBody(body, "sessionId"))

fixedAddress == [Scheme |-> "http", Server |-> "192.168.10.250"]

\* Login(userPassword), up to the first POST
FnLoginCall ==
    /\ pc = "idle"
    /\ \E userPassword \in PasswordInputs, randomString \in RandSeqs :
          LET base64String == EncodeToString(randomString)
              startRequest == [NoBody EXCEPT !.nonce = base64String,
                                             !.username = StrUser]
          IN  /\ transient' = [NoTransient EXCEPT
                                   !.userPassword = userPassword,
                                   !.base64String = base64String]
              /\ wire' = <<PostJSON(fixedAddress, endpointAuthStart, startRequest)>>
              /\ stdout' = <<Line("randomString:", randomString),
                             Line("first nonce mit base64:", base64String),
                             Line("", RequestText(startRequest))>>
    /\ pc' = "fn_start_sent"
    /\ ret' = Called("Login(userPassword)")
    /\ lastTransport' = "none"
    /\ UNCHANGED <<client, lastSchemeInput, loggedIn>>

\* what Login(userPassword) prints between the start response and the finish POST
FnStartLines(result, rounds, keys, finishRequest) ==
    <<Line("nonce:", result.nonce.str),
      Line("rounds:", FormatInt(rounds)),
      Line("salt:", result.salt.str),
      Line("transactionId:", result.transactionId.str),
      Line("Salt decoded:", FormatBytes(DecodeString(result.salt.str).bytes)),
      Line("salt decoded hex", Hex(DecodeString(result.salt.str).bytes)),
      Line("Salted Password:", FormatBytes(keys.saltedPassword)),
      Line("salted hex", Hex(keys.saltedPassword)),
      Line("clientKey", FormatBytes(keys.clientKey)),
      Line("hex", Hex(keys.clientKey)),
      Line("serverKey:", FormatBytes(keys.serverKey)),
      Line("hex", Hex(keys.serverKey)),
      Line("storedKey:", FormatBytes(keys.storedKey)),
      Line("hex", Hex(keys.storedKey)),
      Line("authMessage", keys.authMessage),
      Line("clientSignature", FormatBytes(keys.clientSignature)),
      Line("serverSignature", FormatBytes(keys.serverSignature)),
      Line("clientProof:", keys.clientProof),
      Line("", RequestText(finishRequest))>>

\* Login(userPassword), from the answer to start to the second POST
FnLoginStartReply ==
    /\ pc = "fn_start_sent"
    /\ \E resp \in Responses(StartBodies) :
          /\ lastTransport' = resp.transport
          /\ IF PostFailed(resp)
             THEN /\ Return("Login(userPassword)", <<>>, FALSE,
                            "could not initiate authentication")
                  /\ UNCHANGED <<transient, wire, stdout>>
             ELSE IF ReadFailed(resp)
             THEN /\ Return("Login(userPassword)", <<>>, FALSE,
                            "could not read authentication response")
                  /\ UNCHANGED <<transient, wire, stdout>>
             ELSE \E seen \in {[transient EXCEPT
                                   !.startSeen = TRUE,
                                   !.startShape = resp.body.shape,
                                   !.result = StartResult(resp.body)]},
                     heard \in {stdout \o <<Line("Response: ", ResponseText(resp.body)),
                                            Line("", ResponseText(resp.body))>>} :
                  IF ~StartFieldsOk(resp.body)
                  THEN /\ pc' = "panic"
                       /\ transient' = seen
                       /\ stdout' = heard
                       /\ UNCHANGED <<wire, ret>>
                  ELSE \E keys \in {LoginKeys(transient.userPassword,
                                              transient.base64String,
                                              StartResult(resp.body))} :
                       LET rounds == DecodeMapBody(resp.body, "rounds").num
                           transactionId ==
                               DecodeMapBody(resp.body, "transactionId").str
                           finishRequest == [NoBody EXCEPT
                                                 !.transactionId = transactionId,
                                                 !.proof = keys.clientProof]
                       IN  /\ transient' = [seen EXCEPT
                                                !.keys = keys,
                                                !.rounds = rounds,
                                                !.transactionId = transactionId,
                                                !.serverSignature =
                                                    keys.serverSignature]
                           /\ stdout' = heard \o FnStartLines(seen.result, rounds,
                                                              keys, finishRequest)
                           /\ wire' = Append(wire, PostJSON(fixedAddress,
                                                            endpointAuthFinish,
                                                            finishRequest))
                           /\ pc' = "fn_finish_sent"
                           /\ UNCHANGED ret
    /\ UNCHANGED <<client, lastSchemeInput, loggedIn>>

\* what Login(userPassword) prints between the signature check and the
\* create_session POST
FnWrapLines(protocolKey, ivNonce, sealed, split, createSessionRequest) ==
    <<Line("MAC / protocol key:", FormatBytes(protocolKey)),
      Line("hex", Hex(protocolKey)),
      Line("iv / random bytes", FormatBytes(ivNonce)),
      Line("hex", Hex(ivNonce)),
      Line("Nonce size: ", FormatInt(16)),
      Line("ciphertext:", FormatBytes(sealed)),
      Line("", Hex(sealed)),
      Line("ciphertext ohne:", FormatBytes(split.ciphertext)),
      Line("", Hex(split.ciphertext)),
      Line("tag:", FormatBytes(split.tag)),
      Line("", Hex(split.tag)),
      Line("", RequestText(createSessionRequest))>>

\* Login(userPassword), from the answer to finish to the third POST
FnLoginFinishReply ==
    /\ pc = "fn_finish_sent"
    /\ \E resp \in Responses(FinishBodies(transient.serverSignature)),
          ivNonce \in RandomBytes :
          /\ lastTransport' = resp.transport
          /\ IF PostFailed(resp)
             THEN /\ Return("Login(userPassword)", <<>>, FALSE,
                            "could not initiate authentication finish request")
                  /\ UNCHANGED <<transient, wire, stdout>>
             ELSE IF ReadFailed(resp)
             THEN /\ Return("Login(userPassword)", <<>>, FALSE,
                            "could not read from authentication finish request")
                  /\ UNCHANGED <<transient, wire, stdout>>
             ELSE \E seen \in {[transient EXCEPT
                                   !.finishSeen = TRUE,
                                   !.finishStatus = resp.status,
                                   !.resultFinish =
                                       [signature |-> DecodeMapBody(resp.body, "signature"),
                                        token |-> DecodeMapBody(resp.body, "token")]]},
                     heard \in {stdout \o
                                    <<Line("Response Finish: ", ResponseText(resp.body)),
                                      Line("", ResponseText(resp.body))>>},
                     signature \in {DecodeString(
                                        DecodeMapBody(resp.body, "signature").str).bytes} :
                  LET token == DecodeMapBody(resp.body, "token").str
                      cmpBytes == BytesCompare(signature, transient.serverSignature)
                      compared == heard \o <<Line("Signature", FormatBytes(signature)),
                                             Line("hex", Hex(signature)),
                                             Line("token", token),
                                             Line("compared:", FormatInt(cmpBytes))>>
                  IN  IF ~FinishFieldsOk(resp.body)
                      THEN /\ pc' = "panic"
                           /\ transient' = seen
                           /\ stdout' = heard
                           /\ UNCHANGED <<wire, ret>>
                      ELSE IF SignatureMismatch(signature, transient.serverSignature)
                      THEN /\ Return("Login(userPassword)", <<>>, FALSE,
                                     "signature check error")
                           /\ transient' =
                                  [seen EXCEPT !.compareSteps =
                                      CompareSteps(signature,
                                                   transient.serverSignature)]
                           /\ stdout' = Append(compared,
                                  Line("signature and serverSignature are not equal!",
                                       <<>>))
                           /\ UNCHANGED wire
                      ELSE IF ~NonceSizeOk(ivNonce)
                      THEN /\ pc' = "panic"
                           /\ \E protocolKey \in
                                     {ProtocolKey(transient.keys.storedKey,
                                                  transient.keys.authMessage,
                                                  transient.keys.clientKey)} :
                                 /\ transient' =
                                        [seen EXCEPT
                                            !.ivNonce = ivNonce,
                                            !.protocolKey = protocolKey,
                                            !.compareSteps =
                                                CompareSteps(signature,
                                                    transient.serverSignature)]
                                 /\ stdout' = compared \o
                                        <<Line("MAC / protocol key:",
                                               FormatBytes(protocolKey)),
                                          Line("hex", Hex(protocolKey)),
                                          Line("iv / random bytes",
                                               FormatBytes(ivNonce)),
                                          Line("hex", Hex(ivNonce)),
                                          Line("Nonce size: ", FormatInt(16))>>
                           /\ UNCHANGED <<wire, ret>>
                      ELSE /\ \E protocolKey \in
                                     {ProtocolKey(transient.keys.storedKey,
                                                  transient.keys.authMessage,
                                                  transient.keys.clientKey)} :
                              \E sealed \in {Seal(protocolKey, ivNonce, token)} :
                              \E split \in {SplitTag(sealed)} :
                              \E createSessionRequest \in
                                     {CreateSessionRequest(transient.transactionId,
                                          ivNonce, split.tag, split.ciphertext)} :
                                 /\ transient' =
                                        [seen EXCEPT
                                            !.ivNonce = ivNonce,
                                            !.protocolKey = protocolKey,
                                            !.compareSteps =
                                                CompareSteps(signature,
                                                    transient.serverSignature)]
                                 /\ stdout' = compared \o
                                        FnWrapLines(protocolKey, ivNonce, sealed,
                                                    split, createSessionRequest)
                                 /\ wire' = Append(wire,
                                        PostJSON(fixedAddress,
                                                 endpointAuthCreateSession,
                                                 createSessionRequest))
                           /\ pc' = "fn_session_sent"
                           /\ UNCHANGED ret
    /\ UNCHANGED <<client, lastSchemeInput, loggedIn>>

\* Login(userPassword), from the answer to create_session to its return
FnLoginSessionReply ==
    /\ pc = "fn_session_sent"
    /\ \E resp \in Responses(SessionBodies) :
          /\ lastTransport' = resp.transport
          /\ LET sessionId == DecodeMapBody(resp.body, "sessionId")
                 heard == stdout \o
                     <<Line("Response CreateSession: ", ResponseText(resp.body)),
                       Line("", ResponseText(resp.body))>>
                 seen == [transient EXCEPT !.sessionSeen = TRUE,
                                           !.sessionId = sessionId]
             IN  IF PostFailed(resp)
                 THEN /\ Return("Login(userPassword)", <<>>, FALSE,
                                "could not create session")
                      /\ UNCHANGED <<transient, stdout>>
                 ELSE IF ReadFailed(resp)
                 THEN /\ Return("Login(userPassword)", <<>>, FALSE,
                                "could not read from create session request")
                      /\ UNCHANGED <<transient, stdout>>
                 ELSE IF sessionId.kind # "string"
                 THEN /\ pc' = "panic"
                      /\ transient' = seen
                      /\ stdout' = heard
                      /\ UNCHANGED ret
                 ELSE /\ Return("Login(userPassword)", sessionId.str, TRUE, NoErr)
                      /\ transient' = seen
                      /\ stdout' = heard
    /\ UNCHANGED <<client, wire, lastSchemeInput, loggedIn>>

(***************************************************************************)
(* The command-line subcommands that talk to the inverter.  Each builds a  *)
(* client from the flags, logs in, asks for its data and returns; the      *)
(* process ends when the subcommand has returned.                          *)
(***************************************************************************)

Commands ==
    {"listProcessdata", "getMultProcessdata", "getProcessdata", "listSettings",
     "getSettingsModule", "getSettingsModuleSetting", "getSettingsModuleSettings"}

\* the subcommands that look at their arguments before they build a client
CheckingCommands ==
    {"getMultProcessdata", "getSettingsModule", "getSettingsModuleSetting",
     "getSettingsModuleSettings"}

endpointProcessdata == "/api/v1/processdata"
endpointSettings == "/api/v1/settings"

\* the data request of a subcommand: lib.ProcessData, lib.ProcessDataValues,
\* lib.ProcessDataModuleValues, lib.Settings, lib.SettingsModule, ...: a request
\* with the session header that gives the data or an error
DataRequest(cmd) ==
    /\ pc = "idle"
    /\ wire' = <<SessionRequest(client, "GET",
                     IF cmd \in {"listProcessdata", "getMultProcessdata",
                                 "getProcessdata"}
                     THEN endpointProcessdata ELSE endpointSettings)>>
    /\ \E resp \in Responses(MeBodies) :
          /\ Reachable(client.Server, resp)
          /\ lastTransport' = resp.transport
          /\ IF resp.transport = "ok" /\ resp.status = 200 /\ resp.body.shape = "object"
             THEN Return("Request", <<>>, TRUE, NoErr)
             ELSE Return("Request", <<>>, FALSE, "request error")
          /\ transient' = [NoTransient EXCEPT !.status = resp.status]
    /\ UNCHANGED <<client, lastSchemeInput, loggedIn, stdout>>

\* the exit status of the process: 0 once the subcommand has returned (Run
\* hands no error to the root command), 2 when the run-time ends it in a panic
ExitCode(panicked) == IF panicked THEN 2 ELSE 0

\* defer lib.Logout() was never reached but in listSettings
DefersLogoutOnlyListSettings(cmd, loginOk) == cmd = "listSettings"

\* defer lib.Logout() was reached when Login has returned: listSettings defers
\* it before it looks at the error, the others after
DefersLogout(cmd, loginOk) == IF cmd = "listSettings" THEN TRUE ELSE loginOk

\* the subcommand starts: the arguments are looked at, the client is built
CliRun ==
    /\ UNCHANGED conc
    /\ cli.pc = "none"
    /\ \E cmd \in Commands, argsOk \in BOOLEAN :
          IF cmd \in CheckingCommands /\ ~argsOk
          THEN /\ cli' = [cli EXCEPT !.cmd = cmd, !.pc = "exited",
                                     !.output = <<"Please submit ...">>,
                                     !.exitCode = ExitCode(FALSE)]
               /\ UNCHANGED <<client, pc, transient, wire, ret, lastTransport,
                              lastSchemeInput, loggedIn, stdout>>
          ELSE /\ NewWithParameter
               /\ cli' = [cli EXCEPT !.cmd = cmd, !.pc = "constructed",
                                     !.calls = <<"NewWithParameter">>]

\* _, err := lib.Login()
CliLogin ==
    /\ UNCHANGED conc
    /\ cli.pc = "constructed"
    /\ LoginCall
    /\ cli' = [cli EXCEPT !.pc = "login", !.calls = Append(@, "Login")]

\* Login has returned: the error is looked at, Logout is deferred
CliLoginReturned ==
    /\ UNCHANGED conc
    /\ cli.pc = "login"
    /\ pc = "idle"
    /\ cli' = [cli EXCEPT
                  !.deferred = DefersLogout(cli.cmd, ret.err = NoErr),
                  !.loginOk = ret.err = NoErr,
                  !.loginErr = ret.err # NoErr,
                  !.output = IF ret.err # NoErr
                             THEN Append(@, "An error occurred: " \o ret.err) ELSE @,
                  !.pc = IF ret.err # NoErr THEN "returning" ELSE "request"]
    /\ UNCHANGED <<client, pc, transient, wire, ret, lastTransport,
                   lastSchemeInput, loggedIn, stdout>>

\* Login has panicked: nothing is deferred yet, the run-time ends the process
CliLoginPanicked ==
    /\ UNCHANGED conc
    /\ cli.pc = "login"
    /\ pc = "panic"
    /\ cli' = [cli EXCEPT !.pc = "crashed", !.exitCode = ExitCode(TRUE)]
    /\ UNCHANGED <<client, pc, transient, wire, ret, lastTransport,
                   lastSchemeInput, loggedIn, stdout>>

\* the data request and what is printed of its outcome
CliRequest ==
    /\ UNCHANGED conc
    /\ cli.pc = "request"
    /\ DataRequest(cli.cmd)
    /\ cli' = [cli EXCEPT
                  !.calls = Append(@, "Request"),
                  !.requestErr = ret'.err # NoErr,
                  !.output = IF ret'.err # NoErr
                             THEN Append(@, "An error occurred: " \o ret'.err)
                             ELSE Append(@, "data"),
                  !.pc = "returning"]

\* the subcommand returns: a deferred Logout runs, the process ends
CliReturn ==
    /\ UNCHANGED conc
    /\ cli.pc = "returning"
    /\ IF cli.deferred
       THEN /\ Logout
            /\ cli' = [cli EXCEPT !.calls = Append(@, "Logout"), !.pc = "exited",
                                  !.exitCode = ExitCode(FALSE)]
       ELSE /\ cli' = [cli EXCEPT !.pc = "exited", !.exitCode = ExitCode(FALSE)]
            /\ UNCHANGED <<client, pc, transient, wire, ret, lastTransport,
                           lastSchemeInput, loggedIn, stdout>>

(***************************************************************************)
(* Two callers on one client: one goroutine inside Me, another inside      *)
(* Logout.  AuthClient has no lock, so the steps of the two calls          *)
(* interleave freely: Me reads c.SessionId for its header and sends later; *)
(* Logout sends, the inverter ends the session when it answers 200, and    *)
(* Logout writes c.SessionId = "" after the answer has come back.  A Go    *)
(* string is a pointer and a length; a read that meets the write gives the *)
(* old value, the empty string, or a pointer without its length (a fault). *)
(***************************************************************************)

\* neither goroutine is inside its call
ConcQuiet == conc.me \in {"idle", "done", "fault"} /\ conc.logout \in {"idle", "done"}

\* go c.Me() and go c.Logout() on a client that holds a session
ConcGo ==
    /\ pc = "idle"
    /\ loggedIn
    /\ ConcQuiet
    /\ conc' = [NoConc EXCEPT !.me = "called", !.logout = "called"]
    /\ transient' = NoTransient
    /\ wire' = <<>>
    /\ ret' = Called("go")
    /\ lastTransport' = "none"
    /\ UNCHANGED <<client, pc, lastSchemeInput, loggedIn, stdout, cli>>

\* what a read of c.SessionId can give while Logout is writing it
RacyReads(sid) == {sid, <<>>}

\* Me: request.Header.Add("authorization", "Session "+c.SessionId)
ConcMeBuild ==
    /\ conc.me = "called"
    /\ \/ \E sid \in (IF conc.logout = "clearing"
                      THEN RacyReads(client.SessionId) ELSE {client.SessionId}) :
             conc' = [conc EXCEPT !.me = "built",
                                  !.meAuthorization = StrSession \o sid,
                                  !.raced = @ \/ conc.logout = "clearing"]
       \/ /\ conc.logout = "clearing"
          /\ conc' = [conc EXCEPT !.me = "fault", !.raced = TRUE]
    /\ UNCHANGED <<client, pc, transient, wire, ret, lastTransport,
                   lastSchemeInput, loggedIn, stdout, cli>>

\* Me: client.Do(request)
ConcMeDo ==
    /\ conc.me = "built"
    /\ wire' = Append(wire, [SessionRequest(client, "GET", endpointMe) EXCEPT
                                 !.authorization = conc.meAuthorization])
    /\ conc' = [conc EXCEPT
                   !.me = "sent",
                   !.staleSent = @ \/ (/\ conc.invalidated # <<>>
                                       /\ conc.meAuthorization =
                                              StrSession \o conc.invalidated)]
    /\ UNCHANGED <<client, pc, transient, ret, lastTransport, lastSchemeInput,
                   loggedIn, stdout, cli>>

\* Me: the answer, and what Me returns
ConcMeReply ==
    /\ conc.me = "sent"
    /\ \E resp \in Responses(MeBodies) :
          /\ Reachable(client.Server, resp)
          /\ lastTransport' = resp.transport
          /\ conc' = [conc EXCEPT
                         !.me = "done",
                         !.meRet = IF PostFailed(resp) THEN "request error"
                                   ELSE IF ReadFailed(resp) THEN "read error"
                                   ELSE IF resp.body.shape = "malformed"
                                   THEN "json error"
                                   ELSE IF resp.body.shape # "object"
                                   THEN "could not read response" ELSE NoErr]
    /\ UNCHANGED <<client, pc, transient, wire, ret, lastSchemeInput, loggedIn,
                   stdout, cli>>

\* Logout: the header is built and client.Do(request) sends
ConcLogoutSend ==
    /\ conc.logout = "called"
    /\ wire' = Append(wire, SessionRequest(client, "POST", endpointLogout))
    /\ conc' = [conc EXCEPT !.logout = "sent"]
    /\ loggedIn' = FALSE
    /\ UNCHANGED <<client, pc, transient, ret, lastTransport, lastSchemeInput,
                   stdout, cli>>

\* the inverter answers the logout request; with 200 the session has ended
ConcLogoutServed ==
    /\ conc.logout = "sent"
    /\ \E resp \in Responses({MalformedBody}) :
          /\ Reachable(client.Server, resp)
          /\ lastTransport' = resp.transport
          /\ conc' = [conc EXCEPT
                         !.logout = "answered",
                         !.logoutFailed = LogoutFailed(resp),
                         !.invalidated = IF LogoutFailed(resp) THEN <<>>
                                         ELSE client.SessionId]
    /\ UNCHANGED <<client, pc, transient, wire, ret, lastSchemeInput, loggedIn,
                   stdout, cli>>

\* Logout: the answer has come back; on 200 the write of c.SessionId begins
ConcLogoutReply ==
    /\ conc.logout = "answered"
    /\ conc' = IF conc.logoutFailed
               THEN [conc EXCEPT !.logout = "done", !.logoutRet = "logout error"]
               ELSE [conc EXCEPT !.logout = "clearing"]
    /\ UNCHANGED <<client, pc, transient, wire, ret, lastTransport,
                   lastSchemeInput, loggedIn, stdout, cli>>

\* Logout: c.SessionId = "" is written, Logout returns true
ConcLogoutClear ==
    /\ conc.logout = "clearing"
    /\ client' = [client EXCEPT !.SessionId = <<>>]
    /\ conc' = [conc EXCEPT !.logout = "done"]
    /\ UNCHANGED <<pc, transient, wire, ret, lastTransport, lastSchemeInput,
                   loggedIn, stdout, cli>>

Next ==
    \/ New /\ UNCHANGED <<cli, conc>>
    \/ NewWithParameter /\ UNCHANGED <<cli, conc>>
    \/ SetServer /\ UNCHANGED <<cli, conc>>
    \/ SetPassword /\ UNCHANGED <<cli, conc>>
    \/ SetScheme /\ UNCHANGED <<cli, conc>>
    \/ LoginCall /\ UNCHANGED <<cli, conc>>
    \/ LoginStartReply /\ UNCHANGED <<cli, conc>>
    \/ LoginFinishReply /\ UNCHANGED <<cli, conc>>
    \/ LoginSessionReply /\ UNCHANGED <<cli, conc>>
    \/ Logout /\ UNCHANGED <<cli, conc>>
    \/ Me /\ UNCHANGED <<cli, conc>>

Spec == Init /\ [][Next]_vars

\* a program that uses the function Login(userPassword) only
FnNext ==
    \/ FnLoginCall /\ UNCHANGED <<cli, conc>>
    \/ FnLoginStartReply /\ UNCHANGED <<cli, conc>>
    \/ FnLoginFinishReply /\ UNCHANGED <<cli, conc>>
    \/ FnLoginSessionReply /\ UNCHANGED <<cli, conc>>

FnSpec == Init /\ [][FnNext]_vars

\* a process that runs one subcommand
CliNext ==
    \/ CliRun
    \/ CliLogin
    \/ LoginStartReply /\ UNCHANGED <<cli, conc>>
    \/ LoginFinishReply /\ UNCHANGED <<cli, conc>>
    \/ LoginSessionReply /\ UNCHANGED <<cli, conc>>
    \/ CliLoginReturned
    \/ CliLoginPanicked
    \/ CliRequest
    \/ CliReturn

CliSpec == Init /\ [][CliNext]_vars

\* a program that logs in and then calls Me and Logout from two goroutines
ConcNext ==
    \/ ConcQuiet /\ NewWithParameter /\ conc' = NoConc /\ UNCHANGED cli
    \/ ConcQuiet /\ LoginCall /\ conc' = NoConc /\ UNCHANGED cli
    \/ LoginStartReply /\ UNCHANGED <<cli, conc>>
    \/ LoginFinishReply /\ UNCHANGED <<cli, conc>>
    \/ LoginSessionReply /\ UNCHANGED <<cli, conc>>
    \/ ConcGo
    \/ ConcMeBuild
    \/ ConcMeDo
    \/ ConcMeReply
    \/ ConcLogoutSend
    \/ ConcLogoutServed
    \/ ConcLogoutReply
    \/ ConcLogoutClear

ConcSpec == Init /\ [][ConcNext]_vars

(***************************************************************************)
(* Properties                                                              *)
(***************************************************************************)

\* the paths of the requests on the wire, in the order sent
Paths == [i \in 1..Len(wire) |-> wire[i].url.path]

Sent(endpoint) == \E i \in 1..Len(wire) : wire[i].url.path = endpoint

\* the last call was Login and it has returned
LoginReturned == ret.op = "Login" /\ pc = "idle"

\* the finish response of this Login carried a string signature that decodes to
\* the bytes of the locally computed serverSignature
SignatureIdentical ==
    /\ transient.finishSeen
    /\ transient.resultFinish.signature.kind = "string"
    /\ DecodeString(transient.resultFinish.signature.str).bytes
           = transient.serverSignature

\* the finish response of this Login carried a string signature that decodes to
\* other bytes than serverSignature
SignatureDiffers ==
    /\ transient.finishSeen
    /\ transient.resultFinish.signature.kind = "string"
    /\ DecodeString(transient.resultFinish.signature.str).bytes
           # transient.serverSignature

C2_MissingFieldFails ==
    (/\ ret.op = "Login"
     /\ transient.finishSeen
     /\ \/ transient.resultFinish.signature.kind = "absent"
        \/ transient.resultFinish.token.kind = "absent")
    => /\ LoginReturned
       /\ ret.err = "authentication failed"
       /\ ~ret.ok
       /\ ret.sid = <<>>
       /\ ~Sent(endpointAuthCreateSession)
       /\ client.SessionId = transient.entrySessionId

\* a finish response with status 200 and the right signature but no token was
\* answered with "authentication failed"
C2_Witness ==
    /\ LoginReturned
    /\ transient.finishSeen
    /\ transient.finishStatus = 200
    /\ SignatureIdentical
    /\ transient.resultFinish.token.kind = "absent"
    /\ ret.err = "authentication failed"

\* C3: the requests of one Login are start, finish, create_session in this
\* order, each at most once; finish follows a received start response,
\* create_session a finish response whose signature was identical; a transport
\* error at a step ends the call with no later POST.
C3_HandshakeOrder ==
    ret.op = "Login" =>
        /\ Paths \in {<<endpointAuthStart>>,
                      <<endpointAuthStart, endpointAuthFinish>>,
                      <<endpointAuthStart, endpointAuthFinish,
                        endpointAuthCreateSession>>}
        /\ Len(wire) >= 2 => transient.startSeen
        /\ Len(wire) >= 3 => SignatureIdentical
        /\ pc = "start_sent" => Len(wire) = 1
        /\ pc = "finish_sent" => Len(wire) = 2
        /\ pc = "session_sent" => Len(wire) = 3
        /\ (LoginReturned /\ lastTransport # "ok")
               => /\ ~ret.ok
                  /\ ~transient.startSeen => Len(wire) = 1
                  /\ (transient.startSeen /\ ~transient.finishSeen) => Len(wire) = 2

\* a Login whose finish request failed in transport returned after two requests
C3_Witness ==
    /\ LoginReturned
    /\ lastTransport = "neterr"
    /\ transient.startSeen
    /\ Paths = <<endpointAuthStart, endpointAuthFinish>>
    /\ ret.err = "could not initiate authentication finish request"

\* C4 (as claimed): after a Login that returned an error, SessionId is empty.
C4_ErrorLeavesNoSession ==
    (LoginReturned /\ ret.err # NoErr) => client.SessionId = <<>>

\* C5 (as claimed): SessionId is non-empty exactly when a Login succeeded and
\* no Logout was called since.
C5_SessionIffLoggedIn == (client.SessionId # <<>>) <=> loggedIn

\* C6 (as claimed): a Logout called right after a successful Login leaves
\* SessionId empty.
C6_LoginLogoutEmpties ==
    [][(LoginReturned /\ ret.ok /\ ret'.op = "Logout")
           => client'.SessionId = <<>>]_vars

\* C7 (as claimed): a Logout whose request failed in transport returns an error
\* and SessionId is empty afterwards.
C7_NetworkFailureStillClears ==
    (ret.op = "Logout" /\ lastTransport = "neterr")
    => (ret.err # NoErr /\ client.SessionId = <<>>)

\* C8 (as claimed): a Logout called with an empty SessionId returns (true, nil)
\* and leaves SessionId empty.
C8_LogoutIdempotent ==
    (ret.op = "Logout" /\ wire[1].authorization = StrSession)
    => (ret.ok /\ ret.err = NoErr /\ client.SessionId = <<>>)

\* C9 (as claimed): a Login called with a non-empty SessionId either sends a
\* logout request before anything else or fails with AlreadyAuthenticated
\* without sending anything.
C9_LoginOnActiveClient ==
    (ret.op = "Login" /\ transient.entrySessionId # <<>>)
    => \/ (wire # <<>> /\ wire[1].url.path = endpointLogout)
       \/ (LoginReturned /\ wire = <<>> /\ ret.err = "AlreadyAuthenticated")

\* C10: Scheme is "http" or "https", and "https" exactly when the scheme last
\* given to NewWithParameter or SetScheme was the literal "https"; New gives
\* "http".
C10_SchemeCoercion ==
    /\ client.Scheme \in {"http", "https"}
    /\ (client.Scheme = "https") <=> (lastSchemeInput = "https")
    /\ ret.op = "New" => client.Scheme = "http"

\* SetScheme("HtTpS") left the scheme "http"
C10_Witness ==
    /\ ret.op = "SetScheme"
    /\ lastSchemeInput = "HtTpS"
    /\ client.Scheme = "http"

\* the start response of this Login was no JSON object, or an object without
\* one of nonce, rounds, salt, transactionId
StartIncomplete ==
    /\ transient.startSeen
    /\ \/ transient.startShape # "object"
       \/ \E k \in {"nonce", "rounds", "salt", "transactionId"} :
              transient.result[k].kind = "absent"

\* C11 (as claimed): a start response that is not JSON or lacks one of nonce,
\* rounds, salt, transactionId makes Login return an error to its caller, and no
\* finish request is sent.
C11_StartParseError ==
    (ret.op = "Login" /\ StartIncomplete)
    => /\ LoginReturned
       /\ ~ret.ok
       /\ ret.err # NoErr
       /\ ~Sent(endpointAuthFinish)

\* C12 (as claimed): rounds given as the integral number 29000.0 is accepted and
\* used as 29000; rounds given as a string makes Login return an error.
C12_RoundsNumberOrString ==
    (ret.op = "Login" /\ transient.startSeen)
    => /\ (/\ transient.result.rounds = JNum(29000, FALSE)
           /\ transient.result.nonce.kind = "string"
           /\ transient.result.salt.kind = "string"
           /\ transient.result.transactionId.kind = "string")
          => (Sent(endpointAuthFinish) /\ transient.rounds = 29000)
       /\ transient.result.rounds.kind = "string"
          => (LoginReturned /\ ~ret.ok /\ ret.err # NoErr)

\* C13 (as claimed): rounds given as a number with a fractional part makes Login
\* fail, and no finish request built on a cut or rounded count is sent.
C13_FractionalRoundsRejected ==
    (/\ ret.op = "Login"
     /\ transient.startSeen
     /\ transient.result.rounds.kind = "number"
     /\ transient.result.rounds.frac)
    => /\ pc # "finish_sent"
       /\ ~Sent(endpointAuthFinish)
       /\ LoginReturned => (~ret.ok /\ ret.err # NoErr)

\* C14 (as claimed): a create_session response without sessionId makes Login
\* return the session-creation error and no session id, and the client holds no
\* session afterwards.
C14_MissingSessionId ==
    (/\ ret.op = "Login"
     /\ transient.sessionSeen
     /\ transient.sessionId.kind = "absent")
    => /\ LoginReturned
       /\ ret.err = "session id not available"
       /\ ~ret.ok
       /\ ret.sid = <<>>
       /\ client.SessionId = <<>>

\* the salt of the start response is a string that is not standard base64
SaltUndecodable ==
    /\ transient.startSeen
    /\ transient.result.salt.kind = "string"
    /\ DecodeString(transient.result.salt.str).err

\* the signature of the finish response is a string that is not standard base64
SignatureUndecodable ==
    /\ transient.finishSeen
    /\ transient.resultFinish.signature.kind = "string"
    /\ DecodeString(transient.resultFinish.signature.str).err

\* C15 (as claimed): with an undecodable salt Login sends no finish request, with
\* an undecodable signature it sends no create_session request, and in both cases
\* it ends in an error and never in a session.
C15_UndecodableBase64Fails ==
    ret.op = "Login"
    => /\ SaltUndecodable => ~Sent(endpointAuthFinish)
       /\ SignatureUndecodable => ~Sent(endpointAuthCreateSession)
       /\ (SaltUndecodable \/ SignatureUndecodable)
          => (~ret.ok /\ (LoginReturned => ret.err # NoErr))

\* needle occurs in hay as a run of consecutive bytes
Contains(hay, needle) ==
    /\ Len(needle) <= Len(hay)
    /\ \E i \in 1..(Len(hay) - Len(needle) + 1) :
          /\ hay[i] = needle[1]
          /\ SubSeq(hay, i, i + Len(needle) - 1) = needle

BodyFields(b) == {b.nonce, b.username, b.transactionId, b.proof, b.iv, b.tag, b.payload}

\* what the members of the requests on the wire show a reader: each member as
\* it stands, and what the base64 it is written in decodes to
Readable ==
    UNION {{field, DecodeString(field).bytes} :
               field \in UNION {BodyFields(wire[i].body) : i \in 1..Len(wire)}}

\* the password and the keys this Login derives from it
Secrets ==
    {client.Password, transient.keys.saltedPassword, transient.keys.clientKey,
     transient.keys.serverKey, transient.keys.storedKey,
     transient.keys.clientSignature, transient.keys.serverSignature,
     transient.protocolKey} \ {<<>>}

\* C16: the start body holds the base64 nonce and "user" and nothing else, the
\* finish body the transaction id and the proof (base64 of clientKey XOR
\* clientSignature), the create_session body the transaction id, a 16-byte iv,
\* a 16-byte tag and a payload as long as the token; and no member of any of
\* them holds the password or a derived key, plain or under base64.
C16_NoSecretOnTheWire ==
    (ret.op = "Login" /\ wire # <<>>)
    => /\ wire[1].body = [NoBody EXCEPT !.nonce = transient.base64String,
                                        !.username = StrUser]
       /\ Len(wire) >= 2 =>
              \A keys \in {transient.keys} :
                 /\ wire[2].body =
                        [NoBody EXCEPT
                            !.transactionId = transient.result.transactionId.str,
                            !.proof = EncodeToString(
                                [k \in 1..HashLen |->
                                    XorByte(keys.clientKey[k],
                                            keys.clientSignature[k], 8)])]
                 /\ Len(wire) >= 3 =>
                        /\ wire[3].body.nonce = <<>>
                        /\ wire[3].body.username = <<>>
                        /\ wire[3].body.proof = <<>>
                        /\ wire[3].body.transactionId
                               = transient.result.transactionId.str
                        /\ Len(DecodeString(wire[3].body.iv).bytes) = 16
                        /\ Len(DecodeString(wire[3].body.tag).bytes) = 16
                        /\ Len(DecodeString(wire[3].body.payload).bytes)
                               = Len(transient.resultFinish.token.str)
                 /\ Len(wire) >= 3 => transient.protocolKey # <<>>
                 /\ \A shown \in Readable :
                        \A secret \in Secrets : ~Contains(shown, secret)

\* a Login with the password "changeme" has sent its three requests, the last
\* with the wrapped token "tok"
C16_Witness ==
    /\ ret.op = "Login"
    /\ pc = "session_sent"
    /\ client.Password = StrChangeme
    /\ Len(wire) = 3
    /\ transient.resultFinish.token.str = StrTok
    /\ wire[3].body.payload # <<>>

\* the secret is on standard output: as it stands, in hexadecimal or as the
\* list of its bytes
Written(secret) ==
    \E i \in 1..Len(stdout) :
       \/ Contains(stdout[i].text, secret)
       \/ Contains(stdout[i].text, Hex(secret))
       \/ Contains(stdout[i].text, FormatBytes(secret))

\* the password, the salt, the derived keys and the bearer token of the login
\* in progress or last made
LoginSecrets ==
    ({client.Password, transient.userPassword, transient.result.salt.str,
      DecodeString(transient.result.salt.str).bytes,
      transient.resultFinish.token.str} \ {<<>>})
    \cup (Secrets \ {<<>>})

ErrorMessages ==
    {NoErr, "could not initiate authentication",
     "could not read authentication response",
     "could not initiate authentication finish request",
     "could not read from authentication finish request",
     "authentication failed", "signature check error",
     "could not create session", "could not read from create session request",
     "session id not available"}

\* C17 (as claimed): no login operation of the library writes the password,
\* the salt, a derived key or the bearer token to standard output, and the
\* error a login returns is one of the fixed messages that name the step.
C17_NoSecretWritten ==
    /\ \A secret \in LoginSecrets : ~Written(secret)
    /\ ret.op \in {"Login", "Login(userPassword)"} => ret.err \in ErrorMessages

\* C18 (as claimed): an authenticated request answered with HTTP 401 returns
\* the error SessionExpired, and no result.
C18_UnauthorizedIsSessionExpired ==
    (/\ ret.op \in {"Me", "Logout"}
     /\ lastTransport = "ok"
     /\ transient.status = 401)
    => (~ret.ok /\ ret.err = "SessionExpired")

\* C19: a subcommand calls NewWithParameter, Login, its data request and
\* Logout in this order; the data request is made only after a Login that
\* returned no error; and a subcommand whose Login succeeded has called Logout
\* when it has returned, whether the data request failed or not.
C19_LoginRequestLogout ==
    /\ \E n \in 0..4 :
          \/ cli.calls = SubSeq(<<"NewWithParameter", "Login", "Request", "Logout">>,
                                1, n)
          \/ cli.calls = <<"NewWithParameter", "Login", "Logout">>
    /\ (\E i \in 1..Len(cli.calls) : cli.calls[i] = "Request") => cli.loginOk
    /\ cli.pc \in {"request", "returning", "exited"} /\ cli.loginOk => cli.deferred
    /\ (cli.pc = "exited" /\ cli.loginOk)
          => cli.calls = <<"NewWithParameter", "Login", "Request", "Logout">>

\* a subcommand whose Login succeeded and whose data request failed has called
\* Logout and returned
C19_Witness ==
    /\ cli.pc = "exited"
    /\ cli.loginOk
    /\ cli.requestErr
    /\ cli.calls[Len(cli.calls)] = "Logout"
    /\ wire[1].url.path = endpointLogout

\* C20 (as claimed): the process of a subcommand ends with status 0 when Login
\* and the data request succeeded, and with another status when one of them
\* returned an error.
C20_ExitCode ==
    cli.pc = "exited" =>
        /\ (cli.loginOk /\ ~cli.requestErr) => cli.exitCode = 0
        /\ (cli.loginErr \/ cli.requestErr) => cli.exitCode # 0

\* C21 (as claimed): when Me and Logout run at the same time on one client,
\* Me never reads SessionId while Logout is writing it, and no Me request is
\* sent with a session id that a Logout answered with 200 has already ended.
C21_LogoutSynchronized ==
    /\ ~conc.raced
    /\ ~conc.staleSent

\* the signature Login decoded from the finish response it saw
SignatureSeen == DecodeString(transient.resultFinish.signature.str).bytes

\* C22 (as claimed): the work of comparing the received signature with the
\* server signature does not depend on where the two first differ: whenever
\* Login has compared them, it has looked at every byte pair of their common
\* length.
C22_ConstantTimeCompare ==
    transient.compareSteps # -1 =>
        \E n \in {Len(SignatureSeen), Len(transient.serverSignature)} :
            /\ n <= Len(SignatureSeen)
            /\ n <= Len(transient.serverSignature)
            /\ transient.compareSteps = n

\* C23: a Login that succeeded returns the stored SessionId, which is the
\* sessionId of the create_session response of this call; the call has run the
\* whole handshake itself, with the nonce it drew and the transaction id of its
\* own start response, also when the client held a session of an earlier Login.
C23_LoginReturnsStoredSession ==
    (LoginReturned /\ ret.ok) =>
        /\ ret.sid = client.SessionId
        /\ transient.sessionSeen
        /\ transient.sessionId.kind = "string"
        /\ ret.sid = transient.sessionId.str
        /\ Paths = <<endpointAuthStart, endpointAuthFinish,
                     endpointAuthCreateSession>>
        /\ \E randomString \in RandSeqs :
              transient.base64String = EncodeToString(randomString)
        /\ wire[1].body.nonce = transient.base64String
        /\ transient.result.transactionId.kind = "string"
        /\ wire[2].body.transactionId = transient.result.transactionId.str
        /\ wire[3].body.transactionId = transient.result.transactionId.str

\* a second Login has succeeded on a client that held the session "s1" of an
\* earlier one: it ran on the transaction "tx-2" and the client now holds "s2"
C23_Witness ==
    /\ LoginReturned /\ ret.ok
    /\ transient.entrySessionId = Sid(1)
    /\ client.SessionId = Sid(2)
    /\ ret.sid = Sid(2)
    /\ wire[3].body.transactionId = Tx2

\* the endpoints of the three handshake requests
HandshakeEndpoints ==
    {endpointAuthStart, endpointAuthFinish, endpointAuthCreateSession}

\* C24: the request of a Logout or a Me has the authorization header "Session "
\* followed by the SessionId the client held when the call was made; SessionId
\* changes only when a Login succeeds, to the id that Login returns, or in a
\* Logout or a constructor, so until the next Logout the header carries the id
\* of the last successful Login; the handshake requests have no authorization
\* header.
C24_SessionHeader ==
    [][/\ ret'.op \in {"Logout", "Me"} =>
              /\ Len(wire') = 1
              /\ wire'[1].url.path =
                     (IF ret'.op = "Me" THEN endpointMe ELSE endpointLogout)
              /\ wire'[1].authorization = StrSession \o client.SessionId
       /\ (LoginReturned /\ ret.ok /\ ret'.op \in {"Logout", "Me"}) =>
              wire'[1].authorization = StrSession \o ret.sid
       /\ client'.SessionId # client.SessionId =>
              \/ ret'.op = "Login" /\ ret'.ok /\ client'.SessionId = ret'.sid
              \/ ret'.op \in {"Logout", "New", "NewWithParameter"}
       /\ \A i \in 1..Len(wire') :
              wire'[i].url.path \in HandshakeEndpoints =>
                  /\ wire'[i].authorization = <<>>
                  /\ wire'[i].method = "POST"]_vars

\* a Me called on a client that holds the session "s1" has sent "Session s1"
C24_Witness ==
    /\ ret.op = "Me"
    /\ loggedIn
    /\ client.SessionId = Sid(1)
    /\ wire[1].authorization = StrSession \o Sid(1)

\* the requests of the call to this endpoint
RequestsTo(endpoint) == {i \in 1..Len(wire) : wire[i].url.path = endpoint}

\* C25: in a Login, the finish request and the create_session request name the
\* transactionId of this call's start response; the call sends at most one
\* finish and at most one create_session request; before the start response
\* has come the call holds and sends no transaction id.
C25_TransactionIdOfThisCall ==
    ret.op = "Login" =>
        /\ Cardinality(RequestsTo(endpointAuthFinish)) <= 1
        /\ Cardinality(RequestsTo(endpointAuthCreateSession)) <= 1
        /\ \A i \in RequestsTo(endpointAuthFinish)
                      \cup RequestsTo(endpointAuthCreateSession) :
              /\ transient.startSeen
              /\ transient.result.transactionId.kind = "string"
              /\ wire[i].body.transactionId = transient.result.transactionId.str
        /\ \A i \in RequestsTo(endpointAuthStart) :
              wire[i].body.transactionId = <<>>
        /\ pc = "start_sent" =>
              /\ transient.transactionId = <<>>
              /\ transient.result.transactionId = JAbsent

\* a Login on a client that holds the session of an earlier Login has sent
\* finish and create_session for "tx-2", the transaction of its start response
C25_Witness ==
    /\ pc = "session_sent"
    /\ transient.entrySessionId # <<>>
    /\ transient.result.transactionId = JStr(Tx2)
    /\ wire[2].body.transactionId = Tx2
    /\ wire[3].body.transactionId = Tx2

\* how often needle occurs in hay
Count(hay, needle) ==
    Cardinality({i \in 1..(Len(hay) - Len(needle) + 1) :
                    SubSeq(hay, i, i + Len(needle) - 1) = needle})

\* "n=user,r=", "r=", "s=", "i=" and "c=biws"
StrHead == <<110, 61, 117, 115, 101, 114, 44, 114, 61>>
MarkR == <<114, 61>>
MarkS == <<115, 61>>
MarkI == <<105, 61>>
MarkC == <<99, 61, 98, 105, 119, 115>>

\* Login has just built its auth message and sent finish
AuthMessageBuilt ==
    /\ pc = "finish_sent"
    /\ transient.startSeen
    /\ transient.keys.authMessage # <<>>

\* how often a mark occurs in the values Login puts into the message: the
\* nonce it sent, the server nonce (twice) and the salt
CountInValues(mark) ==
    Count(transient.base64String, mark)
    + 2 * Count(transient.result.nonce.str, mark)
    + Count(transient.result.salt.str, mark)

\* C26 (as claimed): the auth message begins with "n=user,r=", has the nonce
\* sent, the server nonce and the salt as received, ends with ",r=" and the
\* server nonce, and holds "r=" exactly four times, "s=", "i=" and "c=biws"
\* exactly once each.
C26_AuthMessageFourR ==
    AuthMessageBuilt =>
        \E m \in {transient.keys.authMessage} :
            /\ SubSeq(m, 1, Len(StrHead)) = StrHead
            /\ Count(m, MarkR) = 4
            /\ Count(m, MarkS) = 1
            /\ Count(m, MarkI) = 1
            /\ Count(m, MarkC) = 1

\* C26 (amended): the auth message begins with "n=user,r=" followed by the
\* base64 nonce of the start request; it ends with ",r=" and the server nonce as
\* received, which also follows the client nonce after ",r=", and the salt as
\* received follows ",s="; apart from what the nonces and the salt themselves
\* hold, "r=" occurs exactly three times and "s=", "i=" and "c=biws" once each.
C26_AuthMessageShape ==
    AuthMessageBuilt =>
        \E m \in {transient.keys.authMessage} :
          \E cn \in {wire[1].body.nonce} :
            \E sn \in {transient.result.nonce.str} :
              \E salt \in {transient.result.salt.str} :
                /\ SubSeq(m, 1, Len(StrHead)) = StrHead
                /\ SubSeq(m, Len(StrHead) + 1, Len(StrHead) + Len(cn)) = cn
                /\ SubSeq(m, Len(StrHead) + Len(cn) + 1,
                           Len(StrHead) + Len(cn) + 3 + Len(sn)) = StrR \o sn
                /\ SubSeq(m, Len(StrHead) + Len(cn) + 3 + Len(sn) + 1,
                           Len(StrHead) + Len(cn) + 6 + Len(sn) + Len(salt))
                       = StrS \o salt
                /\ SubSeq(m, Len(m) - Len(sn) - 2, Len(m)) = StrR \o sn
                /\ Count(m, MarkR) = 3 + CountInValues(MarkR)
                /\ Count(m, MarkS) = 1 + CountInValues(MarkS)
                /\ Count(m, MarkI) = 1 + CountInValues(MarkI)
                /\ Count(m, MarkC) = 1 + CountInValues(MarkC)

\* Login has built the message for the server nonce "r=s=i=c=biws": "r=" occurs
\* five times in it
C26_Witness ==
    /\ pc = "finish_sent"
    /\ AuthMessageBuilt
    /\ transient.result.nonce = JStr(StrNonceMarks)
    /\ Count(transient.keys.authMessage, MarkR) = 5
    /\ Count(transient.keys.authMessage, MarkC) = 3

\* C27: in the create_session request Login has just sent, iv decodes to 16 bytes and tag
\* to 16 bytes; payload followed by tag is what Seal gave for the token under
\* this iv, so the tag is its last 16 bytes and the payload, as long as the
\* token, what precedes them; the token may be empty, and the random bytes may
\* be those of a generator that reported an error.
C27_IvAndTagSixteen ==
    (ret.op = "Login" /\ pc = "session_sent") =>
        \A i \in RequestsTo(endpointAuthCreateSession) :
            \E iv \in {DecodeString(wire[i].body.iv)} :
              \E tag \in {DecodeString(wire[i].body.tag)} :
                \E payload \in {DecodeString(wire[i].body.payload)} :
                    /\ ~iv.err /\ ~tag.err /\ ~payload.err
                    /\ Len(iv.bytes) = 16
                    /\ Len(tag.bytes) = 16
                    /\ iv.bytes \in RandomBytes
                    /\ transient.resultFinish.token.kind = "string"
                    /\ Len(payload.bytes) = Len(transient.resultFinish.token.str)
                    /\ payload.bytes \o tag.bytes =
                           Seal(transient.protocolKey, iv.bytes,
                                transient.resultFinish.token.str)

\* Login has sent create_session for an empty token with the unfilled buffer
\* of a generator that reported an error: no payload, a tag of 16 bytes
C27_Witness ==
    /\ pc = "session_sent"
    /\ transient.resultFinish.token = JStr(<<>>)
    /\ wire[3].body.iv = EncodeToString(IvZeros)
    /\ wire[3].body.payload = <<>>
    /\ Len(DecodeString(wire[3].body.tag).bytes) = 16

\* C28 (as claimed): a subcommand whose Login returned an error calls neither
\* Logout nor its data request, so it sends no logout request.
C28_LogoutOnlyAfterLogin ==
    cli.loginErr =>
        /\ \A i \in 1..Len(cli.calls) : cli.calls[i] \notin {"Logout", "Request"}
        /\ ~Sent(endpointLogout)

=============================================================================
